---- MODULE Spec2Model ----
(***************************************************************************)
(* Model of tracker.py, `serve` command: main() reloads or creates the     *)
(* CSV log, starts the track_for_server thread (the poller) and the Flask  *)
(* request handlers of /api/data, all sharing tracked_coordinates under    *)
(* data_lock.                                                              *)
(***************************************************************************)
EXTENDS Integers, Sequences, FiniteSets, TLC

(* ---------------------------- bounds ----------------------------------- *)
MaxPolls == 3
MaxInitRows == 1

(* ---------------------------- values ----------------------------------- *)
\* A JSON / Python value: an int, a float, None (JSON null) or an absent key.
IntV(n) == [t |-> "int", v |-> n]
FloatV(n) == [t |-> "float", v |-> n]
None == [t |-> "none", v |-> 0]
Missing == [t |-> "missing", v |-> 0]

IsNumber(x) == x.t \in {"int", "float"}

\* dict.get(key): an absent key reads as None.
Get(x) == IF x.t = "missing" THEN None ELSE x

\* dict.get(key, default): only an absent key takes the default.
GetDefault(x, d) == IF x.t = "missing" THEN d ELSE x

(* ---------------------- text of numbers (csv cells) --------------------- *)
IntText == <<"1", "2">>
FloatText == <<"1.0", "2.0">>

\* csv.writer: None is written as the empty cell, a number as str(number).
CsvCell(x) ==
    IF x.t = "int" THEN IntText[x.v]
    ELSE IF x.t = "float" THEN FloatText[x.v]
    ELSE ""

IsFloatLiteral(cell) ==
    \E n \in DOMAIN IntText : cell = IntText[n] \/ cell = FloatText[n]

\* float(cell), for a cell float() accepts.
ParseFloat(cell) ==
    FloatV(CHOOSE n \in DOMAIN IntText : cell = IntText[n] \/ cell = FloatText[n])

(* --------------------------- timestamps --------------------------------- *)
\* datetime.fromtimestamp(ms / 1000).strftime('%Y-%m-%d %H:%M:%S'): the
\* millisecond count is cut to whole seconds and printed (local time; the
\* texts below are those of a UTC clock).
TimeText == <<"1970-01-01 00:00:00", "1970-01-01 00:00:01">>
FormatTimestamp(ms) == TimeText[(ms \div 1000) + 1]

(* ------------------------- snapshot records ----------------------------- *)
airtag_name == "cat"

NoLocation == [present |-> FALSE, latitude |-> Missing, longitude |-> Missing,
               timeStamp |-> Missing]
Latitudes == {FloatV(1), None}
Longitudes == {IntV(2), None}
TimeStamps == {IntV(1000), IntV(1500), None, Missing}
\* A location without a latitude or a longitude is tried with one timeStamp only.
Locations ==
    {NoLocation} \cup
    {l \in [present : {TRUE}, latitude : Latitudes, longitude : Longitudes,
            timeStamp : TimeStamps] :
        (l.latitude = None \/ l.longitude = None) => l.timeStamp = IntV(1000)}

\* A record of another device whose name differs from airtag_name by case only.
OtherItem ==
    [name |-> "Cat",
     location |-> [present |-> TRUE, latitude |-> FloatV(2), longitude |-> IntV(1),
                   timeStamp |-> IntV(1000)]]
TrackedItems == [name : {airtag_name}, location : Locations]

\* What get_data_snapshot returns: None on any failure, else the parsed list.
NoSnapshot == [ok |-> FALSE, items |-> <<>>]
Snapshots ==
    {NoSnapshot, [ok |-> TRUE, items |-> <<>>], [ok |-> TRUE, items |-> <<OtherItem>>]}
    \cup {[ok |-> TRUE, items |-> <<it>>] : it \in TrackedItems}
    \cup {[ok |-> TRUE, items |-> <<OtherItem, it>>] :
             it \in {x \in TrackedItems : x.location.timeStamp = Missing}}

\* `not all_items`: None and the empty list are both falsy.
Truthy(snapshot) == snapshot.ok /\ Len(snapshot.items) > 0

\* Mutant of NameMatches: the comparison ignores case.
LowerCase(name) == IF name = "Cat" THEN "cat" ELSE name
NameMatchesIgnoringCase(item, name) == LowerCase(item.name) = LowerCase(name)

\* item.get('name') == airtag_name
NameMatches(item, name) == item.name = name

\* next((item for item in all_items if ...), None): index of the first match, 0 if none.
FindItem(items, name) ==
    IF \E i \in DOMAIN items : NameMatches(items[i], name)
    THEN CHOOSE i \in DOMAIN items :
            /\ NameMatches(items[i], name)
            /\ \A j \in DOMAIN items : NameMatches(items[j], name) => i <= j
    ELSE 0

\* `location and location.get('latitude') is not None`
HasLocation(location) == location.present /\ Get(location.latitude).t # "none"

\* timestamp_unix = location.get('timeStamp', 0) / 1000 raises TypeError on None.
TimestampRaises(location) == ~IsNumber(GetDefault(location.timeStamp, IntV(0)))

NewCoord(location) ==
    [lat |-> Get(location.latitude),
     lon |-> Get(location.longitude),
     ts |-> FormatTimestamp(GetDefault(location.timeStamp, IntV(0)).v)]

NoCoord == [lat |-> None, lon |-> None, ts |-> ""]

(* ------------------------------ log file -------------------------------- *)
Header == <<"timestamp", "latitude", "longitude">>

\* writer.writerow([timestamp_human, latitude, longitude])
CsvRow(coord) == <<coord.ts, CsvCell(coord.lat), CsvCell(coord.lon)>>

\* Mutant of Accepts: the timestamp is looked up in the whole list.
AcceptsIfNowhere(history, coord) ==
    \A i \in DOMAIN history : history[i].ts # coord.ts

\* The dedup test: `not tracked_coordinates or tracked_coordinates[-1]['ts'] != new_coord['ts']`
Accepts(history, coord) ==
    history = <<>> \/ history[Len(history)].ts # coord.ts

\* Mutant of AppendCoord: the record is inserted at the front.
InsertCoordFirst(history, coord) == <<coord>> \o history

\* tracked_coordinates.append(new_coord)
AppendCoord(history, coord) == Append(history, coord)

\* The reload loop of main(): rows with fewer than 3 cells are passed over; a
\* ValueError of float() is caught outside the loop, which ends the reload.
RECURSIVE LoadRows(_, _)
LoadRows(rows, acc) ==
    IF rows = <<>> THEN acc
    ELSE LET row == Head(rows) IN
         IF Len(row) >= 3
         THEN IF IsFloatLiteral(row[2]) /\ IsFloatLiteral(row[3])
              THEN LoadRows(Tail(rows),
                            Append(acc, [lat |-> ParseFloat(row[2]),
                                         lon |-> ParseFloat(row[3]),
                                         ts |-> row[1]]))
              ELSE acc
         ELSE LoadRows(Tail(rows), acc)

\* next(reader, None) drops the first row, whatever it is.
SkipHeader(rows) == IF rows = <<>> THEN <<>> ELSE Tail(rows)

LoadPrevious(rows) == LoadRows(SkipHeader(rows), <<>>)

NoFile == [exists |-> FALSE, rows |-> <<>>]

\* Rows a log found at startup may hold besides well-formed ones.
InitRows ==
    { <<TimeText[2], "1.0", "2">>,
      <<TimeText[1], "1.0">>,
      <<TimeText[1], "x", "2">> }
InitBodies == UNION {[1..k -> InitRows] : k \in 0..MaxInitRows}
InitLogs ==
    {NoFile, [exists |-> TRUE, rows |-> <<>>]}
    \cup {[exists |-> TRUE, rows |-> <<Header>> \o body] : body \in InitBodies}

(* ------------------------------ /api/data ------------------------------- *)
JsonValue(x) == IF IsNumber(x) THEN [t |-> "number", v |-> x.v] ELSE [t |-> "null", v |-> 0]

\* jsonify(tracked_coordinates): a list of {lat, lon, ts} objects.
Jsonify(history) ==
    [i \in DOMAIN history |->
        [lat |-> JsonValue(history[i].lat), lon |-> JsonValue(history[i].lon),
         ts |-> history[i].ts]]

\* Mutant of ApiData: an empty list is answered with an error status.
ApiDataNotFoundWhenEmpty(history) ==
    [status |-> IF history = <<>> THEN 404 ELSE 200, body |-> Jsonify(history)]

\* api_data(): Flask answers a jsonify(...) return value with status 200.
ApiData(history) == [status |-> 200, body |-> Jsonify(history)]
NoResponse == [status |-> 0, body |-> <<>>]

(* ------------------------------- state ---------------------------------- *)
Handlers == {"h1", "h2"}

\* The sub-commands of the argument parser.
Commands == {"dump", "track", "serve"}

\* What find_database_file returns: a path, or None when no Items.data exists.
DbPaths == {"found", "none"}

\* Mutant of AbortsWithoutDatabase: `serve` is dispatched before the test.
AbortsUnlessServe(cmd) == cmd # "serve"

\* `if not db_path: return` stands before the dispatch on args.command.
AbortsWithoutDatabase(cmd) == cmd \in Commands

VARIABLES
    command,              \* args.command of the current run
    db_path,              \* result of find_database_file in the current run
    sleeps,               \* time.sleep calls of the poller since its last fetch
    polled_ts,            \* timestamps of the records the poller has built, all runs
    mainpc,               \* "start": main() not yet run; "creating": the new log is
                          \* open, its header unwritten; "serving": threads running;
                          \* "tracking": the loop of `track`; "exited": main() returned
    logfile,              \* the CSV log: [exists, rows]
    tracked_coordinates,  \* the shared list
    data_lock,            \* "free", "poller" or the handler holding it
    pollerpc,             \* position of track_for_server
    all_items,            \* the snapshot of the current iteration
    new_coord,            \* the record of the current iteration
    outcome,              \* how the last finished iteration ended
    not_found_streak,     \* consecutive iterations that ended "not_found"
    rpc,                  \* position of each api_data handler
    response,             \* the last response sent by a handler
    npolls,               \* iterations started so far, over all runs
    fresh,                \* the log was created by this program (no file at first start)
    persisted             \* records whose rows this program wrote since the first start

vars == <<command, db_path, sleeps, polled_ts, mainpc, logfile, tracked_coordinates, data_lock, pollerpc, all_items,
          new_coord, outcome, not_found_streak, rpc, response, npolls, fresh, persisted>>

Init ==
    /\ command \in Commands
    /\ db_path \in DbPaths
    /\ sleeps = 0
    /\ polled_ts = {}
    /\ mainpc = "start"
    /\ logfile \in InitLogs
    /\ tracked_coordinates = <<>>
    /\ data_lock = "free"
    /\ pollerpc = "none"
    /\ all_items = NoSnapshot
    /\ new_coord = NoCoord
    /\ outcome = "none"
    /\ not_found_streak = 0
    /\ rpc = [h \in Handlers |-> "idle"]
    /\ response = NoResponse
    /\ npolls = 0
    /\ fresh = ~logfile.exists
    /\ persisted = <<>>

(* ------------------------------- main() --------------------------------- *)
\* os.path.exists(log_filename): reload, then start the thread and the server.
MainLoadPrevious ==
    /\ mainpc = "start"
    /\ command = "serve"
    /\ db_path = "found" \/ ~AbortsWithoutDatabase(command)
    /\ logfile.exists
    /\ tracked_coordinates' = tracked_coordinates \o LoadPrevious(logfile.rows)
    /\ mainpc' = "serving"
    /\ pollerpc' = "fetch"
    /\ UNCHANGED <<logfile, data_lock, all_items, new_coord, outcome, not_found_streak, rpc, response,
                   npolls, fresh, persisted>>
    /\ UNCHANGED <<command, db_path, sleeps, polled_ts>>

\* No log yet: open(log_filename, 'w') creates the file, empty.
MainCreateLog ==
    /\ mainpc = "start"
    /\ command = "serve"
    /\ db_path = "found" \/ ~AbortsWithoutDatabase(command)
    /\ ~logfile.exists
    /\ logfile' = [exists |-> TRUE, rows |-> <<>>]
    /\ mainpc' = "creating"
    /\ UNCHANGED <<tracked_coordinates, data_lock, pollerpc, all_items, new_coord, outcome,
                   not_found_streak, rpc, response, npolls, fresh, persisted>>
    /\ UNCHANGED <<command, db_path, sleeps, polled_ts>>

\* writer.writerow(header) reaches the file when the `with` closes it; then
\* the thread and the server are started.
MainWriteHeader ==
    /\ mainpc = "creating"
    /\ logfile' = [logfile EXCEPT !.rows = <<Header>>]
    /\ mainpc' = "serving"
    /\ pollerpc' = "fetch"
    /\ UNCHANGED <<tracked_coordinates, data_lock, all_items, new_coord, outcome, not_found_streak, rpc,
                   response, npolls, fresh, persisted>>
    /\ UNCHANGED <<command, db_path, sleeps, polled_ts>>

\* No Items.data: main() returns before the dispatch on the command.
MainNoDatabase ==
    /\ mainpc = "start"
    /\ db_path = "none"
    /\ AbortsWithoutDatabase(command)
    /\ mainpc' = "exited"
    /\ UNCHANGED <<command, db_path, sleeps, polled_ts, logfile, tracked_coordinates, data_lock, pollerpc,
                   all_items, new_coord, outcome, not_found_streak, rpc, response,
                   npolls, fresh, persisted>>

\* `dump`: dump_all_items writes its own output file (all_items.csv) and returns.
MainDump ==
    /\ mainpc = "start"
    /\ command = "dump"
    /\ db_path = "found"
    /\ mainpc' = "exited"
    /\ UNCHANGED <<command, db_path, sleeps, polled_ts, logfile, tracked_coordinates, data_lock, pollerpc,
                   all_items, new_coord, outcome, not_found_streak, rpc, response,
                   npolls, fresh, persisted>>

\* `track`: the foreground loop of track_specific_item_to_csv, which writes
\* its own output file (tracking_log.csv), not the log of `serve`.
MainTrack ==
    /\ mainpc = "start"
    /\ command = "track"
    /\ db_path = "found"
    /\ mainpc' = "tracking"
    /\ UNCHANGED <<command, db_path, sleeps, polled_ts, logfile, tracked_coordinates, data_lock, pollerpc,
                   all_items, new_coord, outcome, not_found_streak, rpc, response,
                   npolls, fresh, persisted>>

\* The process is stopped, wherever main() and its threads are (the poller is
\* a daemon thread), or has ended, and the program is run again with the same
\* log file.
Restart ==
    /\ mainpc \in {"start", "creating", "serving", "tracking", "exited"}
    /\ command' \in Commands
    /\ db_path' \in DbPaths
    /\ sleeps' = 0
    /\ UNCHANGED polled_ts
    /\ mainpc' = "start"
    /\ tracked_coordinates' = <<>>
    /\ data_lock' = "free"
    /\ pollerpc' = "none"
    /\ all_items' = NoSnapshot
    /\ new_coord' = NoCoord
    /\ outcome' = "none"
    /\ not_found_streak' = 0
    /\ rpc' = [h \in Handlers |-> "idle"]
    /\ response' = NoResponse
    /\ UNCHANGED <<logfile, npolls, fresh, persisted>>

(* -------------------------- track_for_server ---------------------------- *)
\* Mutant of Caught: the handler names OSError only.
CaughtOSErrorOnly(exc) == exc = "OSError"

\* `except Exception` catches every exception an iteration raises.
Caught(exc) == exc \in {"TypeError", "OSError"}

\* Where the poller goes after an exception: past the handler to the sleep,
\* or out of the thread if it is not caught.
AfterException(exc) == IF Caught(exc) THEN "sleep" ELSE "dead"

\* open(log_filename, 'a') and writer.writerow(row).
AppendRow(file, row) == [file EXCEPT !.rows = Append(@, row)]

\* Mutant of AfterNoDataSleep: no `continue`, the iteration falls through to
\* the sleep that ends every other iteration.
FallsThroughToSleep == "sleep"

\* `continue` after the sleep of an iteration that got no snapshot.
AfterNoDataSleep == "fetch"

PollFetch ==
    /\ mainpc = "serving"
    /\ pollerpc = "fetch"
    /\ npolls < MaxPolls
    /\ npolls' = npolls + 1
    /\ all_items' \in Snapshots
    /\ pollerpc' = "extract"
    /\ UNCHANGED <<mainpc, logfile, tracked_coordinates, data_lock, new_coord, outcome, not_found_streak,
                   rpc, response, fresh, persisted>>
    /\ sleeps' = 0
    /\ UNCHANGED <<command, db_path, polled_ts>>

PollExtract ==
    /\ pollerpc = "extract"
    /\ IF ~Truthy(all_items)
       THEN /\ pollerpc' = "sleep_nodata"
            /\ outcome' = "no_data"
            /\ not_found_streak' = 0
            /\ all_items' = NoSnapshot
            /\ UNCHANGED <<new_coord, polled_ts>>
       ELSE LET i == FindItem(all_items.items, airtag_name) IN
            IF i = 0
            THEN /\ pollerpc' = "sleep"
                 /\ outcome' = "not_found"
                 /\ not_found_streak' = not_found_streak + 1
                 /\ all_items' = NoSnapshot
                 /\ UNCHANGED <<new_coord, polled_ts>>
            ELSE LET location == all_items.items[i].location IN
                 IF ~HasLocation(location)
                 THEN /\ pollerpc' = "sleep"
                      /\ outcome' = "no_location"
                      /\ not_found_streak' = 0
                      /\ all_items' = NoSnapshot
                      /\ UNCHANGED <<new_coord, polled_ts>>
                 ELSE IF TimestampRaises(location)
                 THEN /\ pollerpc' = AfterException("TypeError")
                      /\ outcome' = "error"
                      /\ not_found_streak' = 0
                      /\ all_items' = NoSnapshot
                      /\ UNCHANGED <<new_coord, polled_ts>>
                 ELSE /\ pollerpc' = "acquire"
                      /\ new_coord' = NewCoord(location)
                      /\ polled_ts' = polled_ts \cup {NewCoord(location).ts}
                      /\ UNCHANGED <<outcome, not_found_streak, all_items>>
    /\ UNCHANGED <<mainpc, logfile, tracked_coordinates, data_lock, rpc, response,
                   npolls, fresh, persisted>>
    /\ UNCHANGED <<command, db_path, sleeps>>

\* with data_lock:
PollAcquire ==
    /\ pollerpc = "acquire"
    /\ data_lock = "free"
    /\ data_lock' = "poller"
    /\ pollerpc' = "critical"
    /\ UNCHANGED <<mainpc, logfile, tracked_coordinates, all_items, new_coord, outcome, not_found_streak,
                   rpc, response, npolls, fresh, persisted>>
    /\ UNCHANGED <<command, db_path, sleeps, polled_ts>>

\* Mutant of PollAppend: the `with` block ends after the append, so the row
\* is written with the lock released.
PollAppendThenRelease ==
    /\ pollerpc = "critical"
    /\ data_lock' = "free"
    /\ IF Accepts(tracked_coordinates, new_coord)
       THEN /\ tracked_coordinates' = AppendCoord(tracked_coordinates, new_coord)
            /\ pollerpc' = "write"
            /\ UNCHANGED <<outcome, new_coord, all_items, not_found_streak>>
       ELSE /\ pollerpc' = "sleep"
            /\ outcome' = "dedup"
            /\ not_found_streak' = 0
            /\ new_coord' = NoCoord
            /\ all_items' = NoSnapshot
            /\ UNCHANGED tracked_coordinates
    /\ UNCHANGED <<mainpc, logfile, rpc, response, npolls, fresh, persisted>>
    /\ UNCHANGED <<command, db_path, sleeps, polled_ts>>

\* The dedup test and tracked_coordinates.append(new_coord).
PollAppend ==
    /\ pollerpc = "critical"
    /\ IF Accepts(tracked_coordinates, new_coord)
       THEN /\ tracked_coordinates' = AppendCoord(tracked_coordinates, new_coord)
            /\ pollerpc' = "write"
            /\ UNCHANGED <<data_lock, outcome, new_coord, all_items, not_found_streak>>
       ELSE /\ data_lock' = "free"
            /\ pollerpc' = "sleep"
            /\ outcome' = "dedup"
            /\ not_found_streak' = 0
            /\ new_coord' = NoCoord
            /\ all_items' = NoSnapshot
            /\ UNCHANGED tracked_coordinates
    /\ UNCHANGED <<mainpc, logfile, rpc, response, npolls, fresh, persisted>>
    /\ UNCHANGED <<command, db_path, sleeps, polled_ts>>

\* open(log_filename, 'a') and writer.writerow(...), then the lock is released.
PollWrite ==
    /\ pollerpc = "write"
    /\ logfile' = AppendRow(logfile, CsvRow(new_coord))
    /\ persisted' = Append(persisted, new_coord)
    /\ data_lock' = "free"
    /\ pollerpc' = "sleep"
    /\ outcome' = "logged"
    /\ not_found_streak' = 0
    /\ new_coord' = NoCoord
    /\ all_items' = NoSnapshot
    /\ UNCHANGED <<mainpc, tracked_coordinates, rpc, response, npolls, fresh>>
    /\ UNCHANGED <<command, db_path, sleeps, polled_ts>>

\* Mutant of PollWriteError: the handler takes the record back out of the list.
PollWriteErrorRollsBack ==
    /\ pollerpc = "write"
    /\ tracked_coordinates' = SubSeq(tracked_coordinates, 1, Len(tracked_coordinates) - 1)
    /\ data_lock' = "free"
    /\ pollerpc' = AfterException("OSError")
    /\ outcome' = "error"
    /\ not_found_streak' = 0
    /\ new_coord' = NoCoord
    /\ all_items' = NoSnapshot
    /\ UNCHANGED <<mainpc, logfile, rpc, response, npolls, fresh, persisted>>
    /\ UNCHANGED <<command, db_path, sleeps, polled_ts>>

\* Mutant of PollWriteError: the lock is taken with acquire() and given back
\* with release() after the write, so an exception leaves it held.
PollWriteErrorKeepsLock ==
    /\ pollerpc = "write"
    /\ pollerpc' = AfterException("OSError")
    /\ outcome' = "error"
    /\ not_found_streak' = 0
    /\ new_coord' = NoCoord
    /\ all_items' = NoSnapshot
    /\ UNCHANGED <<mainpc, logfile, tracked_coordinates, data_lock, rpc, response,
                   npolls, fresh, persisted>>
    /\ UNCHANGED <<command, db_path, sleeps, polled_ts>>

\* open() raises OSError: the `with` releases the lock, the handler prints.
PollWriteError ==
    /\ pollerpc = "write"
    /\ data_lock' = "free"
    /\ pollerpc' = AfterException("OSError")
    /\ outcome' = "error"
    /\ not_found_streak' = 0
    /\ new_coord' = NoCoord
    /\ all_items' = NoSnapshot
    /\ UNCHANGED <<mainpc, logfile, tracked_coordinates, rpc, response,
                   npolls, fresh, persisted>>
    /\ UNCHANGED <<command, db_path, sleeps, polled_ts>>

\* time.sleep(interval), then the next iteration.
PollSleep ==
    /\ pollerpc = "sleep"
    /\ pollerpc' = "fetch"
    /\ sleeps' = sleeps + 1
    /\ UNCHANGED <<mainpc, logfile, tracked_coordinates, data_lock, all_items,
                   new_coord, outcome, not_found_streak, rpc, response, npolls, fresh, persisted>>
    /\ UNCHANGED <<command, db_path, polled_ts>>

\* `if not all_items: time.sleep(interval); continue`.
PollSleepNoData ==
    /\ pollerpc = "sleep_nodata"
    /\ pollerpc' = AfterNoDataSleep
    /\ sleeps' = sleeps + 1
    /\ UNCHANGED <<mainpc, logfile, tracked_coordinates, data_lock, all_items,
                   new_coord, outcome, not_found_streak, rpc, response, npolls, fresh, persisted>>
    /\ UNCHANGED <<command, db_path, polled_ts>>

(* ------------------------------ api_data -------------------------------- *)
\* Mutant of ReqAcquire: the handler reads the list without taking the lock.
ReqEnterWithoutLock(h) ==
    /\ mainpc = "serving"
    /\ rpc[h] = "idle"
    /\ rpc' = [rpc EXCEPT ![h] = "locked"]
    /\ UNCHANGED <<mainpc, logfile, tracked_coordinates, data_lock, pollerpc, all_items,
                   new_coord, outcome, not_found_streak, response, npolls, fresh, persisted>>
    /\ UNCHANGED <<command, db_path, sleeps, polled_ts>>

\* with data_lock:
ReqAcquire(h) ==
    /\ mainpc = "serving"
    /\ rpc[h] = "idle"
    /\ data_lock = "free"
    /\ data_lock' = h
    /\ rpc' = [rpc EXCEPT ![h] = "locked"]
    /\ UNCHANGED <<mainpc, logfile, tracked_coordinates, pollerpc, all_items, new_coord,
                   outcome, not_found_streak, response, npolls, fresh, persisted>>
    /\ UNCHANGED <<command, db_path, sleeps, polled_ts>>

\* return jsonify(tracked_coordinates), which leaves the `with`.
ReqReturn(h) ==
    /\ rpc[h] = "locked"
    /\ response' = ApiData(tracked_coordinates)
    /\ data_lock' = "free"
    /\ rpc' = [rpc EXCEPT ![h] = "idle"]
    /\ UNCHANGED <<mainpc, logfile, tracked_coordinates, pollerpc, all_items, new_coord,
                   outcome, not_found_streak, npolls, fresh, persisted>>
    /\ UNCHANGED <<command, db_path, sleeps, polled_ts>>

Next ==
    \/ MainLoadPrevious
    \/ MainCreateLog
    \/ MainWriteHeader
    \/ MainNoDatabase
    \/ MainDump
    \/ MainTrack
    \/ Restart
    \/ PollFetch
    \/ PollExtract
    \/ PollAcquire
    \/ PollAppend
    \/ PollWrite
    \/ PollWriteError
    \/ PollSleep
    \/ PollSleepNoData
    \/ \E h \in Handlers : ReqAcquire(h)
    \/ \E h \in Handlers : ReqReturn(h)

Spec == Init /\ [][Next]_vars

\* A thread that holds the lock keeps running: the poller goes through its
\* critical section, a handler returns its response.
LiveSpec ==
    /\ Spec
    /\ WF_vars(PollAppend)
    /\ WF_vars(PollWrite \/ PollWriteError)
    /\ \A h \in Handlers : WF_vars(ReqReturn(h))

(* ============================== claims ================================= *)
IsPrefix(a, b) == Len(a) <= Len(b) /\ \A i \in DOMAIN a : a[i] = b[i]

\* The step stays inside one run of the process (it is not a Restart).
SameRun == mainpc = "serving" /\ mainpc' = "serving"

\* The poller is inside an iteration, after the fetch.
Iterating == pollerpc \in {"extract", "acquire", "critical", "write"}

\* The two places where the poller sleeps between iterations.
SleepPcs == {"sleep", "sleep_nodata"}

DataRows(file) == SkipHeader(file.rows)

\* C1: a located record is left out of History iff History is non-empty and
\* its last entry has the record's timestamp (History is then unchanged);
\* otherwise the record becomes the last entry. The test looks at the last
\* entry only, so polls t1, t2, t1 give a History of length 3.
C1_DedupAgainstLastEntryOnly ==
    [][(SameRun /\ pollerpc = "critical")
        => IF tracked_coordinates # <<>>
              /\ tracked_coordinates[Len(tracked_coordinates)].ts = new_coord.ts
           THEN tracked_coordinates' = tracked_coordinates
           ELSE tracked_coordinates' = tracked_coordinates \o <<new_coord>>]_vars

\* Three polls t1, t2, t1 on a fresh start were all appended in one run (a
\* reloaded entry would hold a float longitude).
C1_Witness ==
    /\ fresh /\ npolls = 3
    /\ Len(tracked_coordinates) = 3
    /\ \A i \in 1..3 : tracked_coordinates[i].lon.t = "int"
    /\ tracked_coordinates[1].ts = tracked_coordinates[3].ts
    /\ tracked_coordinates[1].ts # tracked_coordinates[2].ts

\* C2: within a run History only grows at its end, and every response is a
\* prefix of History as it is then and later, hence of every later response.
C2_SnapshotsArePrefixes ==
    [][SameRun
        => /\ IsPrefix(tracked_coordinates, tracked_coordinates')
           /\ IsPrefix(response.body, response'.body)
           /\ IsPrefix(response'.body, Jsonify(tracked_coordinates'))]_vars

\* A read was answered with a non-empty list and History grew since.
C2_Witness ==
    /\ rpc = [h \in Handlers |-> "idle"]
    /\ Len(response.body) >= 1
    /\ Len(tracked_coordinates) > Len(response.body)

\* C3: between iterations the data rows of a log this program created are
\* the rows of the History entries, in order.
C3_LogMatchesHistory ==
    (fresh /\ mainpc = "serving" /\ pollerpc \in {"fetch"} \cup SleepPcs)
        => DataRows(logfile) = [i \in DOMAIN tracked_coordinates |->
                                    CsvRow(tracked_coordinates[i])]

\* A row is well formed when it has at least 3 cells and numeric coordinates.
WellFormed(row) == Len(row) >= 3 /\ IsFloatLiteral(row[2]) /\ IsFloatLiteral(row[3])

\* The records of all well-formed rows, in file order.
RECURSIVE WellFormedRecords(_)
WellFormedRecords(rows) ==
    IF rows = <<>> THEN <<>>
    ELSE LET row == Head(rows) IN
         (IF WellFormed(row)
          THEN <<[lat |-> ParseFloat(row[2]), lon |-> ParseFloat(row[3]), ts |-> row[1]]>>
          ELSE <<>>) \o WellFormedRecords(Tail(rows))

\* C4: the startup reload loads every well-formed row of an existing log,
\* those after a malformed row included.
C4_BadRowSkippedAlone ==
    [][(mainpc = "start" /\ mainpc' = "serving" /\ logfile.exists)
        => tracked_coordinates' = WellFormedRecords(DataRows(logfile))]_vars

\* Equality of values as numbers: 2 == 2.0.
PyEq(x, y) ==
    IF IsNumber(x) /\ IsNumber(y) THEN x.v = y.v
    ELSE x.t = y.t /\ x.v = y.v

SameRecords(a, b) ==
    /\ Len(a) = Len(b)
    /\ \A i \in DOMAIN a :
        a[i].ts = b[i].ts /\ PyEq(a[i].lat, b[i].lat) /\ PyEq(a[i].lon, b[i].lon)

AllNumeric(records) ==
    \A i \in DOMAIN records : IsNumber(records[i].lat) /\ IsNumber(records[i].lon)

\* C5: when every record written to a log this program created has numeric
\* coordinates, History right after a startup is those records, in order.
C5_RoundTripAcrossRestart ==
    [][(mainpc = "start" /\ mainpc' = "serving" /\ fresh /\ AllNumeric(persisted))
        => SameRecords(tracked_coordinates', persisted)]_vars

\* C6: in serve mode on a log this program created, no two consecutive
\* History entries have the same timestamp.
C6_NoConsecutiveDuplicates ==
    (fresh /\ mainpc = "serving")
        => \A i \in DOMAIN tracked_coordinates :
              i > 1 => tracked_coordinates[i].ts # tracked_coordinates[i - 1].ts

NoExactMatch(items) == \A i \in DOMAIN items : items[i].name # airtag_name

\* C7: an iteration whose fetch failed, or whose snapshot holds no record
\* named exactly airtag_name, changes neither History nor the log and ends
\* at the sleep.
C7_FailedOrUnmatchedPollChangesNothing ==
    [][(SameRun /\ Iterating /\ (~all_items.ok \/ NoExactMatch(all_items.items)))
        => /\ UNCHANGED <<tracked_coordinates, logfile>>
           /\ pollerpc' \in {pollerpc} \cup SleepPcs]_vars

\* Three "not found" iterations in a row on a fresh start.
C7_Witness ==
    /\ fresh /\ mainpc = "serving"
    /\ not_found_streak = 3 /\ pollerpc = "sleep"
    /\ tracked_coordinates = <<>>
    /\ logfile.rows = <<Header>>

\* The matched record has no location, no latitude or no longitude.
NoUsableLocation(location) ==
    \/ ~location.present
    \/ Get(location.latitude) = None
    \/ Get(location.longitude) = None

MatchedLocation == all_items.items[FindItem(all_items.items, airtag_name)].location

\* C8: an iteration whose matched record has no usable location changes
\* neither History nor the log.
C8_NoUsableLocationChangesNothing ==
    [][(SameRun /\ Iterating /\ Truthy(all_items)
            /\ ~NoExactMatch(all_items.items) /\ NoUsableLocation(MatchedLocation))
        => UNCHANGED <<tracked_coordinates, logfile>>]_vars

\* The step in which an iteration fails: the fetch returned nothing, the
\* extraction raised, or the log write raised.
FailingStep ==
    /\ pollerpc' # pollerpc
    /\ \/ pollerpc = "extract" /\ ~all_items.ok
       \/ pollerpc = "extract" /\ Truthy(all_items) /\ ~NoExactMatch(all_items.items)
             /\ HasLocation(MatchedLocation) /\ TimestampRaises(MatchedLocation)
       \/ pollerpc = "write" /\ logfile' = logfile

\* C9: the poller thread never dies; a failing step of an iteration takes it
\* to the sleep with the lock released, and from the sleep it goes on to the
\* next fetch.
C9_PollerSurvivesIterationErrors ==
    /\ [](pollerpc # "dead")
    /\ [][(SameRun /\ FailingStep) => (pollerpc' \in SleepPcs /\ data_lock' # "poller")]_vars
    /\ [][(SameRun /\ pollerpc \in SleepPcs) => pollerpc' \in {pollerpc, "fetch"}]_vars

\* An iteration failed (extraction or log write) and the next one has fetched.
C9_Witness ==
    /\ mainpc = "serving" /\ outcome = "error" /\ pollerpc = "extract"

\* C10: a read changes neither History nor the log, and answers an empty
\* History with status 200 and an empty list.
C10_ReadIsPureAndEmptyIsSuccess ==
    [][(SameRun /\ rpc' # rpc)
        => /\ UNCHANGED <<tracked_coordinates, logfile>>
           /\ ((\E h \in Handlers : rpc[h] = "locked" /\ rpc'[h] = "idle")
                  /\ tracked_coordinates = <<>>)
                 => response' = [status |-> 200, body |-> <<>>]]_vars

\* A read of an empty History was answered.
C10_Witness ==
    /\ mainpc = "serving" /\ rpc = [h \in Handlers |-> "idle"]
    /\ tracked_coordinates = <<>>
    /\ response = [status |-> 200, body |-> <<>>]

\* The step in which a handler returns its response.
ReadReturns == \E h \in Handlers : rpc[h] = "locked" /\ rpc'[h] = "idle"

\* C11: the process is never stopped between the append of a record to
\* History and the write of its log row: a stop finds the poller at a sleep
\* boundary, not inside an iteration.
C11_NoStopBetweenAppendAndWrite ==
    [][(mainpc = "serving" /\ mainpc' # "serving") => pollerpc # "write"]_vars

\* C12: whatever the command, a run that finds no Items.data returns from
\* main() at once: no thread is started, History stays empty, the log file is
\* neither created nor changed, no request is served.
C12_NoDatabaseAbortsBeforeAnyLoop ==
    /\ [](db_path = "none"
            => /\ mainpc \in {"start", "exited"}
               /\ pollerpc = "none"
               /\ tracked_coordinates = <<>>
               /\ rpc = [h \in Handlers |-> "idle"]
               /\ response = NoResponse)
    /\ [][(db_path = "none" /\ mainpc = "start" /\ mainpc' # "start")
            => (mainpc' = "exited" /\ logfile' = logfile)]_vars

\* `serve` was run without Items.data and without a log file, and returned.
C12_Witness ==
    /\ mainpc = "exited" /\ db_path = "none" /\ command = "serve"
    /\ ~logfile.exists

\* C13: the poller's critical section and a handler's read of History never
\* overlap, nor do two reads; and while main() has not finished the reload,
\* neither the poller nor a handler runs.
C13_HistoryAccessesExclusive ==
    /\ \A h \in Handlers : ~(rpc[h] = "locked" /\ pollerpc \in {"critical", "write"})
    /\ \A g, h \in Handlers : (rpc[g] = "locked" /\ rpc[h] = "locked") => g = h
    /\ mainpc \in {"start", "creating"}
         => (pollerpc = "none" /\ rpc = [h \in Handlers |-> "idle"])

\* After a reload, a handler reads History while the poller, with a record
\* ready, waits for the lock.
C13_Witness ==
    /\ ~fresh /\ tracked_coordinates # <<>>
    /\ rpc["h1"] = "locked" /\ data_lock = "h1"
    /\ pollerpc = "acquire" /\ new_coord # NoCoord

\* C14: the poller never waits for the lock while a handler that holds it has
\* still to serialize its response.
C14_PollerNeverWaitsForSerializingHandler ==
    \A h \in Handlers : ~(rpc[h] = "locked" /\ pollerpc = "acquire")

\* Between two consecutive fetches of a run the poller sleeps exactly once.
OneSleepBetweenFetches ==
    /\ [](sleeps <= 1)
    /\ [][(SameRun /\ pollerpc = "fetch" /\ pollerpc' = "extract")
            => sleeps = (IF outcome = "none" THEN 0 ELSE 1)]_vars

\* C15 as stated: one sleep between two fetches, and the poller waits nowhere
\* but in the sleep and the fetch, so it never stands before a held lock.
C15_SuspendsOnlyInSleepAndFetch ==
    /\ OneSleepBetweenFetches
    /\ [](pollerpc = "acquire" => data_lock = "free")

\* C15, amended: one sleep between two consecutive fetches whatever the
\* outcome of the iteration; besides the sleep and the fetch the poller also
\* waits for the lock, and only while a handler holds it.
C15_OneSleepAndLockWait ==
    /\ OneSleepBetweenFetches
    /\ [](pollerpc = "acquire" /\ data_lock # "free"
            => \E h \in Handlers : data_lock = h /\ rpc[h] = "locked")

\* The third fetch of a run came after an iteration that got no snapshot and
\* slept in its own branch.
C15_Witness ==
    /\ mainpc = "serving" /\ fresh
    /\ npolls = 3 /\ pollerpc = "extract" /\ outcome = "no_data" /\ sleeps = 0

\* C16: a log this program created holds the header row as its first row
\* once its creation is over, and an existing log keeps its content as a
\* prefix of its later content.
C16_LogIsAppendOnly ==
    /\ []((fresh /\ logfile.exists /\ mainpc # "creating")
            => (logfile.rows # <<>> /\ Head(logfile.rows) = Header))
    /\ [][logfile.exists
            => (logfile'.exists /\ IsPrefix(logfile.rows, logfile'.rows))]_vars

\* C17: when the log write of an accepted record fails, the record stays the
\* last entry of History, the poller goes to its sleep with the lock free,
\* and a read returns all of History.
C17_FailedWriteKeepsRecord ==
    /\ [][(SameRun /\ pollerpc = "write" /\ pollerpc' # "write" /\ logfile' = logfile)
            => /\ tracked_coordinates' = tracked_coordinates
               /\ tracked_coordinates'[Len(tracked_coordinates')] = new_coord
               /\ pollerpc' = "sleep"
               /\ data_lock' = "free"]_vars
    /\ [][(SameRun /\ ReadReturns)
            => response'.body = Jsonify(tracked_coordinates)]_vars

\* A log write failed, a read returned the record, and the poller has
\* fetched again.
C17_Witness ==
    /\ fresh /\ mainpc = "serving"
    /\ outcome = "error" /\ pollerpc = "extract"
    /\ Len(tracked_coordinates) = 1 /\ DataRows(logfile) = <<>>
    /\ response.body = Jsonify(tracked_coordinates)

C19_NoReadOfPendingRecord ==
    /\ [](pollerpc = "write" => Len(response.body) < Len(tracked_coordinates))
    /\ [][(SameRun /\ ReadReturns) => pollerpc \notin {"critical", "write"}]_vars

\* A read returned a record of this run after its row was written.
C19_Witness ==
    /\ fresh /\ mainpc = "serving" /\ rpc = [h \in Handlers |-> "idle"]
    /\ outcome = "logged"
    /\ Len(tracked_coordinates) = 1 /\ tracked_coordinates[1].lon.t = "int"
    /\ response.body = Jsonify(tracked_coordinates)
    /\ DataRows(logfile) = <<CsvRow(tracked_coordinates[1])>>

\* Every row of the log, a header at its top apart, is well formed.
AllRowsWellFormed(file) ==
    \A i \in DOMAIN file.rows :
        (i = 1 /\ file.rows[i] = Header) \/ WellFormed(file.rows[i])

NoRepeatedTimestamp(rows) ==
    \A i \in DOMAIN rows : i > 1 => rows[i][1] # rows[i - 1][1]

\* C20: on a log this program created and whose rows are all well formed,
\* the first poll of a run with the timestamp of the last log row changes
\* neither History nor the log; and while the device's timestamp stays the
\* same, over any number of runs, no row is written with the timestamp of
\* the row before it.
C20_DedupCarriesAcrossRestart ==
    /\ [][(SameRun /\ fresh /\ pollerpc = "critical" /\ outcome = "none"
              /\ logfile.rows # <<>> /\ AllRowsWellFormed(logfile)
              /\ new_coord.ts = logfile.rows[Len(logfile.rows)][1])
            => (UNCHANGED <<tracked_coordinates, logfile>> /\ pollerpc' # "write")]_vars
    /\ [][(fresh /\ logfile.rows # <<>> /\ AllRowsWellFormed(logfile)
              /\ Cardinality(polled_ts') <= 1 /\ logfile' # logfile)
            => NoRepeatedTimestamp(SubSeq(logfile'.rows, Len(logfile.rows), Len(logfile'.rows)))]_vars

====
